---- MODULE Spec2Model ----
(***************************************************************************)
(* Model of src/main.rs: the download worker (`run`: a supervisor loop     *)
(* selecting between a command channel and a SelectAll of per-item         *)
(* `download` state machines), the two bounded channels around it, and the *)
(* iced application (`App::update`) that consumes its events.              *)
(*                                                                         *)
(* Channel semantics come from the calls the source makes:                 *)
(*   - `self.sender.try_send(..)` on a tokio bounded mpsc: enqueue when a  *)
(*     slot is free, otherwise return an error (which `let _ =` discards); *)
(*   - `sender.send(..).await` on a futures mpsc Sender: the item is       *)
(*     enqueued and the future completes only once the sender is not       *)
(*     parked, i.e. it waits for the receiver when the buffer is exceeded; *)
(*   - `tokio::select!` without an `else` branch panics when every branch  *)
(*     is disabled (pattern `Some(..)` did not match).                     *)
(* SelectAll promises no order among ready streams: any ready machine may  *)
(* be the one that yields.                                                 *)
(***************************************************************************)
EXTENDS Integers, Sequences, FiniteSets, TLC

----------------------------------------------------------------------------
(* Bounds of the model *)

\* number of StartDownload messages the application handles in state Running
MaxSubmissions == 2
\* number of live Downloader handles (clones) at a time
MaxHandles == 2
\* capacity of the Command Channel; mpsc::channel(32) in the source, scaled
CommandCapacity == 1
\* buffer of the Event Sink; subscription::channel(id, 128, run), scaled
SinkBuffer == 1

(* Program constants: the ranges of the random draws, main.rs:204 and :217 *)
TotalLo == 10000
TotalHi == 50000
ChunkLo == 1000
ChunkHi == 5000

\* scaled stand-ins for gen_range(10_000..50_000) and gen_range(1_000..5_000)
\* in the specification of the whole system: an item takes two or three
\* Advanced steps and ends with downloaded = 3 or 4
SmallTotals == {2}
SmallChunks == {1, 2}
\* the draws of the single-item specification: the ends of the real ranges
\* and interior values
RealTotals == {TotalLo, TotalLo + 1, 3 * TotalLo, TotalHi - 1}
RealChunks == {ChunkLo, ChunkLo + 1, 3 * ChunkLo, ChunkHi - 1}

Ids == 0 .. (MaxSubmissions - 1)

----------------------------------------------------------------------------
VARIABLES
    pc,           \* run: "start" | "select" | "flush" | "panicked"
    sink,         \* Event Sink: queue of DownloaderEvent
    parked,       \* the Event Sink's sender is parked (buffer exceeded)
    rx,           \* Command Channel: queue of DownloaderMessage::Download ids
    handles,      \* number of live Downloader values (senders of rx)
    downloads,    \* run's SelectAll: sequence of item machines
    appState,     \* App.state: "Init" | "Running"
    id_counter,   \* App.id_counter
    appDownloads, \* AppState::Running.downloads: id -> progress
    hist,         \* history: per id, the shape of the events produced
    dropped,      \* history: ids whose submission try_send refused
    initCount,    \* history: number of Initialized events sent
    interrupted,  \* history: a submission was registered while a step slept
    seen          \* history: per id, the shape of the events the consumer got

vars == <<pc, sink, parked, rx, handles, downloads, appState, id_counter,
          appDownloads, hist, dropped, initCount, interrupted, seen>>

----------------------------------------------------------------------------
(* Data: enum State, enum Progress, enum DownloaderEvent *)

Ready == [tag |-> "Ready", total |-> 0, downloaded |-> 0]
Downloading(total, downloaded) ==
    [tag |-> "Downloading", total |-> total, downloaded |-> downloaded]
Finished == [tag |-> "Finished", total |-> 0, downloaded |-> 0]

Started == [kind |-> "Started", pct |-> 0]
Advanced(p) == [kind |-> "Advanced", pct |-> p]
FinishedEv == [kind |-> "Finished", pct |-> 0]

Initialized == [type |-> "Initialized", id |-> 0, p |-> Started]
Progress(i, p) == [type |-> "Progress", id |-> i, p |-> p]

\* (num / den) * 100 as a fixed-point number of ten-thousandths of a percent,
\* truncated, computed in two parts to stay within 32-bit integers
Ratio(num, den) ==
    ((num * 100) \div den) * 10000 + (((num * 100) % den) * 10000) \div den

\* the quotient taken the wrong way round
Percentage_Swapped(downloaded, total) == Ratio(total, downloaded)

\* (downloaded as f32 / total as f32) * 100.0.  The f32 result is kept as a
\* fixed-point number with a relative resolution of 1e-6: coarser than f32
\* (about 1e-7 for these magnitudes), so values this keeps apart or above a
\* threshold are kept so by f32, and fine enough to tell downloaded =
\* total + 1 from total for every total below 50_000.
Percentage(downloaded, total) == Ratio(downloaded, total)

\* the comparison taken strictly: downloaded = total already finishes
NeedsChunk_Strict(state) ==
    state.tag = "Downloading" /\ state.downloaded < state.total

\* a Downloading machine that draws a chunk and sleeps: downloaded <= total
NeedsChunk(state) ==
    state.tag = "Downloading" /\ state.downloaded <= state.total

\* download with State::Finished returning Finished again instead of
\* suspending forever
download_RepeatsFinished(id, state, total, chunk_size) ==
    CASE state.tag = "Ready" ->
           [pending |-> FALSE, ev |-> <<id, Started>>,
            st |-> Downloading(total, 0)]
      [] state.tag = "Downloading" ->
           IF NeedsChunk(state)
           THEN LET downloaded == state.downloaded + chunk_size
                IN [pending |-> FALSE,
                    ev |-> <<id, Advanced(Percentage(downloaded, state.total))>>,
                    st |-> Downloading(state.total, downloaded)]
           ELSE [pending |-> FALSE, ev |-> <<id, FinishedEv>>, st |-> Finished]
      [] OTHER ->
           [pending |-> FALSE, ev |-> <<id, FinishedEv>>, st |-> Finished]

\* download that reports every event under id 0
download_WrongId(id, state, total, chunk_size) ==
    CASE state.tag = "Ready" ->
           [pending |-> FALSE, ev |-> <<0, Started>>,
            st |-> Downloading(total, 0)]
      [] state.tag = "Downloading" ->
           IF NeedsChunk(state)
           THEN LET downloaded == state.downloaded + chunk_size
                IN [pending |-> FALSE,
                    ev |-> <<0, Advanced(Percentage(downloaded, state.total))>>,
                    st |-> Downloading(state.total, downloaded)]
           ELSE [pending |-> FALSE, ev |-> <<0, FinishedEv>>, st |-> Finished]
      [] OTHER ->
           [pending |-> TRUE, ev |-> <<0, FinishedEv>>, st |-> state]

\* download that forgets what was downloaded before: downloaded = chunk_size
download_NoAccumulate(id, state, total, chunk_size) ==
    CASE state.tag = "Ready" ->
           [pending |-> FALSE, ev |-> <<id, Started>>,
            st |-> Downloading(total, 0)]
      [] state.tag = "Downloading" ->
           IF NeedsChunk(state)
           THEN LET downloaded == chunk_size
                IN [pending |-> FALSE,
                    ev |-> <<id, Advanced(Percentage(downloaded, state.total))>>,
                    st |-> Downloading(state.total, downloaded)]
           ELSE [pending |-> FALSE, ev |-> <<id, FinishedEv>>, st |-> Finished]
      [] OTHER ->
           [pending |-> TRUE, ev |-> <<id, FinishedEv>>, st |-> state]

\* download that credits only half of each chunk
download_HalfChunk(id, state, total, chunk_size) ==
    CASE state.tag = "Ready" ->
           [pending |-> FALSE, ev |-> <<id, Started>>,
            st |-> Downloading(total, 0)]
      [] state.tag = "Downloading" ->
           IF NeedsChunk(state)
           THEN LET downloaded == state.downloaded + chunk_size \div 2
                IN [pending |-> FALSE,
                    ev |-> <<id, Advanced(Percentage(downloaded, state.total))>>,
                    st |-> Downloading(state.total, downloaded)]
           ELSE [pending |-> FALSE, ev |-> <<id, FinishedEv>>, st |-> Finished]
      [] OTHER ->
           [pending |-> TRUE, ev |-> <<id, FinishedEv>>, st |-> state]

\* download that suspends forever once downloaded > total, without Finished
download_NoFinish(id, state, total, chunk_size) ==
    CASE state.tag = "Ready" ->
           [pending |-> FALSE, ev |-> <<id, Started>>,
            st |-> Downloading(total, 0)]
      [] state.tag = "Downloading" ->
           IF NeedsChunk(state)
           THEN LET downloaded == state.downloaded + chunk_size
                IN [pending |-> FALSE,
                    ev |-> <<id, Advanced(Percentage(downloaded, state.total))>>,
                    st |-> Downloading(state.total, downloaded)]
           ELSE [pending |-> TRUE, ev |-> <<id, FinishedEv>>, st |-> state]
      [] OTHER ->
           [pending |-> TRUE, ev |-> <<id, FinishedEv>>, st |-> state]

\* download(id, state) with its random draws passed in: the (id, Progress)
\* pair and the next state it returns, or `pending` for State::Finished
\* (future::pending().await never returns).
download(id, state, total, chunk_size) ==
    CASE state.tag = "Ready" ->
           [pending |-> FALSE, ev |-> <<id, Started>>,
            st |-> Downloading(total, 0)]
      [] state.tag = "Downloading" ->
           IF NeedsChunk(state)
           THEN LET downloaded == state.downloaded + chunk_size
                IN [pending |-> FALSE,
                    ev |-> <<id, Advanced(Percentage(downloaded, state.total))>>,
                    st |-> Downloading(state.total, downloaded)]
           ELSE [pending |-> FALSE, ev |-> <<id, FinishedEv>>, st |-> Finished]
      [] OTHER ->
           [pending |-> TRUE, ev |-> <<id, FinishedEv>>, st |-> state]

\* the unfold stream pushed for one Download message: the machine's state
\* and the chunk of the step that is sleeping (0: no step in flight)
Machine(id) == [id |-> id, state |-> Ready, sleep |-> 0]

----------------------------------------------------------------------------
(* History bookkeeping *)

NoHist == [shape |-> <<>>, n |-> 0, last |-> 0]

\* a sequence of kinds extended by one, with runs of Advanced collapsed
AddKind(shape, kind) ==
    IF kind = "Advanced" /\ shape # <<>> /\ shape[Len(shape)] = "Advanced"
    THEN shape ELSE Append(shape, kind)

\* the kinds produced for an id, with runs of Advanced collapsed; with
\* `detail` (the single-item specification) also the number of Advanced
\* events and the percentage of the last of them
Note(h, p, detail) ==
    [shape |-> AddKind(h.shape, p.kind),
     n     |-> IF detail /\ p.kind = "Advanced" THEN h.n + 1 ELSE h.n,
     last  |-> IF detail /\ p.kind = "Advanced" THEN p.pct ELSE h.last]

----------------------------------------------------------------------------
(* The two channels *)

\* try_send that enqueues whatever the occupancy of the channel
try_send_Unbounded(queue, id) == Append(queue, id)

\* Downloader::download: self.sender.try_send(Download(id, url)) on the
\* bounded tokio channel; the Err(Full) result is discarded by `let _ =`.
try_send(queue, id) ==
    IF Len(queue) < CommandCapacity THEN Append(queue, id) ELSE queue

\* a non-blocking send on the Event Sink: enqueue below the buffer size,
\* drop otherwise, never wait
SinkSend_DropOnFull(event) ==
    /\ sink' = IF Len(sink) < SinkBuffer THEN Append(sink, event) ELSE sink
    /\ parked' = FALSE
    /\ pc' = "select"

\* a send that puts the event into the channel twice
SinkSend_Twice(event) ==
    /\ sink' = sink \o <<event, event>>
    /\ parked' = (Len(sink) + 2 > SinkBuffer)
    /\ pc' = IF Len(sink) + 2 > SinkBuffer THEN "flush" ELSE "select"

\* sender.send(event).await on the Event Sink.  The supervisor only sends
\* from the loop when the previous send has completed, so the sender is
\* not parked here: the event is enqueued at once, and the send completes
\* at once unless the queue now exceeds the buffer, in which case the
\* sender is parked until the receiver takes an event.
SinkSend(event) ==
    /\ sink' = Append(sink, event)
    /\ parked' = (Len(sink) + 1 > SinkBuffer)
    /\ pc' = IF Len(sink) + 1 > SinkBuffer THEN "flush" ELSE "select"

----------------------------------------------------------------------------
(* App::update *)

EmptyMap == [i \in {} |-> 0]

\* HashMap::insert
Insert(map, k, v) == [i \in DOMAIN map \cup {k} |-> IF i = k THEN v ELSE map[i]]

\* a Progress arm that creates the entry when the id has none
OnProgress_Upsert(map, id, p) ==
    IF p.kind # "Advanced" THEN map
    ELSE Insert(map, id, p.pct)

\* Message::DownloaderEvent(DownloaderEvent::Progress(id, p)) in Running
OnProgress(map, id, p) ==
    IF p.kind # "Advanced" THEN map
    ELSE IF id \in DOMAIN map THEN [map EXCEPT ![id] = p.pct]
    ELSE map

\* App::update on a Message::DownloaderEvent e: the state and the downloads
\* map afterwards (state Init has no map: it carries the empty one)
update(state, map, e) ==
    IF e.type = "Initialized"
    THEN [state |-> "Running", downloads |-> EmptyMap]
    ELSE [state |-> state,
          downloads |-> IF state = "Running" THEN OnProgress(map, e.id, e.p)
                        ELSE map]

----------------------------------------------------------------------------
Init ==
    /\ pc = "start"
    /\ sink = <<>>
    /\ parked = FALSE
    /\ rx = <<>>
    /\ handles = 0
    /\ downloads = <<>>
    /\ appState = "Init"
    /\ id_counter = 0
    /\ appDownloads = EmptyMap
    /\ hist = [i \in Ids |-> NoHist]
    /\ dropped = {}
    /\ initCount = 0
    /\ interrupted = FALSE
    /\ seen = [i \in Ids |-> <<>>]

----------------------------------------------------------------------------
(* The supervisor: run *)

appVars == <<appState, id_counter, appDownloads>>

\* run entering its loop without the Initialized handshake
RunInit_NoHandshake ==
    /\ pc = "start"
    /\ handles' = 1
    /\ pc' = "select"
    /\ UNCHANGED <<sink, parked, rx, downloads, appState, id_counter,
                   appDownloads, hist, dropped, initCount, interrupted, seen>>

\* let (tx, rx) = mpsc::channel(32); send Initialized(Downloader { tx })
RunInit ==
    /\ pc = "start"
    /\ handles' = 1
    /\ SinkSend(Initialized)
    /\ initCount' = initCount + 1
    /\ UNCHANGED <<rx, downloads, appVars, hist, dropped, interrupted, seen>>

\* the command branch registering the message without taking it off the
\* channel
RecvCommand_KeepsMessage ==
    /\ pc = "select"
    /\ rx # <<>>
    /\ downloads' = Append(downloads, Machine(Head(rx)))
    /\ interrupted' = (interrupted \/ \E m \in 1 .. Len(downloads) : downloads[m].sleep > 0)
    /\ UNCHANGED <<rx, sink, parked, pc, handles, appState, id_counter,
                   appDownloads, hist, dropped, initCount, seen>>

\* the command branch rebuilding the set: the sleeping steps are restarted
RecvCommand_Restart ==
    /\ pc = "select"
    /\ rx # <<>>
    /\ downloads' = Append([m \in 1 .. Len(downloads) |->
                               [downloads[m] EXCEPT !.sleep = 0]],
                           Machine(Head(rx)))
    /\ rx' = Tail(rx)
    /\ interrupted' = (interrupted \/ \E m \in 1 .. Len(downloads) : downloads[m].sleep > 0)
    /\ UNCHANGED <<sink, parked, pc, handles, appState, id_counter,
                   appDownloads, hist, dropped, initCount, seen>>

\* select! branch: Some(msg) = rx.recv() => downloads.push(unfold(..))
RecvCommand ==
    /\ pc = "select"
    /\ rx # <<>>
    /\ downloads' = Append(downloads, Machine(Head(rx)))
    /\ rx' = Tail(rx)
    /\ interrupted' = (interrupted \/ \E m \in 1 .. Len(downloads) : downloads[m].sleep > 0)
    /\ UNCHANGED <<sink, parked, pc, handles, appVars, hist, dropped, initCount, seen>>

\* the stream branch taking a machine out of the set once it has finished
Yield_Deregister(m, r, detail) ==
    /\ downloads' = IF r.st = Finished
                    THEN SubSeq(downloads, 1, m - 1) \o SubSeq(downloads, m + 1, Len(downloads))
                    ELSE [downloads EXCEPT ![m] = [id |-> @.id, state |-> r.st, sleep |-> 0]]
    /\ SinkSend(Progress(r.ev[1], r.ev[2]))
    /\ hist' = [hist EXCEPT ![r.ev[1]] = Note(@, r.ev[2], detail)]
    /\ UNCHANGED <<rx, handles, appVars, dropped, initCount, interrupted, seen>>

\* select! branch: Some((i, p)) = downloads.next() => sender.send(Progress(i, p))
\* for the result r of machine m's step
Yield(m, r, detail) ==
    /\ downloads' = [downloads EXCEPT ![m] = [id |-> @.id, state |-> r.st, sleep |-> 0]]
    /\ SinkSend(Progress(r.ev[1], r.ev[2]))
    /\ hist' = [hist EXCEPT ![r.ev[1]] = Note(@, r.ev[2], detail)]
    /\ UNCHANGED <<rx, handles, appVars, dropped, initCount, interrupted, seen>>

\* the select loop polls machine m's future, whose outcome is r: a pending
\* future leaves everything as it is, a result is yielded
Resume(m, r, detail) ==
    IF r.pending THEN UNCHANGED vars ELSE Yield(m, r, detail)

\* State::Ready: draws total, yields Started
PollReady(m, Totals, detail) ==
    /\ pc = "select"
    /\ downloads[m].state.tag = "Ready"
    /\ \E total \in Totals :
         Resume(m, download(downloads[m].id, downloads[m].state, total, 0), detail)

\* State::Downloading, downloaded <= total: draws chunk_size and sleep, and
\* suspends in tokio::time::sleep
BeginStep(m, Chunks) ==
    /\ pc = "select"
    /\ downloads[m].sleep = 0
    /\ NeedsChunk(downloads[m].state)
    /\ \E chunk_size \in Chunks :
         downloads' = [downloads EXCEPT ![m].sleep = chunk_size]
    /\ UNCHANGED <<pc, sink, parked, rx, handles, appVars, hist, dropped,
                   initCount, interrupted, seen>>

\* the sleep is over: downloaded + chunk_size, yields Advanced
EndStep(m, detail) ==
    /\ pc = "select"
    /\ downloads[m].sleep > 0
    /\ Resume(m, download(downloads[m].id, downloads[m].state,
                          downloads[m].state.total, downloads[m].sleep), detail)

\* State::Downloading, downloaded > total: yields Finished
Finish(m, detail) ==
    /\ pc = "select"
    /\ downloads[m].state.tag = "Downloading"
    /\ ~NeedsChunk(downloads[m].state)
    /\ Resume(m, download(downloads[m].id, downloads[m].state,
                          downloads[m].state.total, 0), detail)

\* State::Finished: the future never completes
PollFinished(m, detail) ==
    /\ pc = "select"
    /\ downloads[m].state.tag = "Finished"
    /\ Resume(m, download(downloads[m].id, downloads[m].state, 0, 0), detail)

\* rx.recv() is None (no sender left, nothing buffered) and downloads.next()
\* is None (SelectAll holds no stream): select! has no enabled branch and
\* no else branch
Panic ==
    /\ pc = "select"
    /\ rx = <<>>
    /\ handles = 0
    /\ downloads = <<>>
    /\ pc' = "panicked"
    /\ UNCHANGED <<sink, parked, rx, handles, downloads, appVars, hist, dropped, initCount, interrupted, seen>>

\* the pending send completes once the receiver has unparked the sender
FlushDone ==
    /\ pc = "flush"
    /\ ~parked
    /\ pc' = "select"
    /\ UNCHANGED <<sink, parked, rx, handles, downloads, appVars, hist, dropped, initCount, interrupted, seen>>

----------------------------------------------------------------------------
(* The consumer: the iced runtime polling the subscription, and the user *)

\* the runtime takes the next event and hands it to App::update
Deliver ==
    /\ sink # <<>>
    /\ sink' = Tail(sink)
    /\ parked' = FALSE
    /\ LET r == update(appState, appDownloads, Head(sink)) IN
         /\ appState' = r.state
         /\ appDownloads' = r.downloads
    /\ seen' = IF Head(sink).type = "Progress"
               THEN [seen EXCEPT ![Head(sink).id] = AddKind(@, Head(sink).p.kind)]
               ELSE seen
    /\ UNCHANGED <<pc, rx, handles, downloads, id_counter, hist, dropped, initCount, interrupted>>

\* Message::StartDownload in state Init
StartDownloadInit ==
    /\ appState = "Init"
    /\ UNCHANGED vars

\* StartDownload that creates the map entry only for an accepted submission
StartDownload_InsertOnSuccess ==
    /\ appState = "Running"
    /\ handles >= 1
    /\ id_counter < MaxSubmissions
    /\ appDownloads' = IF Len(rx) < CommandCapacity
                       THEN Insert(appDownloads, id_counter, 0)
                       ELSE appDownloads
    /\ rx' = try_send(rx, id_counter)
    /\ dropped' = IF Len(rx) < CommandCapacity THEN dropped
                  ELSE dropped \cup {id_counter}
    /\ id_counter' = id_counter + 1
    /\ UNCHANGED <<pc, sink, parked, handles, downloads, appState, hist, initCount, interrupted, seen>>

\* StartDownload that submits without advancing id_counter
StartDownload_NoIncrement ==
    /\ appState = "Running"
    /\ handles >= 1
    /\ id_counter < MaxSubmissions
    /\ appDownloads' = Insert(appDownloads, id_counter, 0)
    /\ rx' = try_send(rx, id_counter)
    /\ dropped' = IF Len(rx) < CommandCapacity THEN dropped
                  ELSE dropped \cup {id_counter}
    /\ UNCHANGED <<pc, sink, parked, handles, downloads, appState, id_counter,
                   hist, initCount, interrupted, seen>>

\* Message::StartDownload in state Running; the handle kept in the state is
\* one of the live handles
StartDownload ==
    /\ appState = "Running"
    /\ handles >= 1
    /\ id_counter < MaxSubmissions
    /\ appDownloads' = Insert(appDownloads, id_counter, 0)
    /\ rx' = try_send(rx, id_counter)
    /\ dropped' = IF Len(rx) < CommandCapacity THEN dropped
                  ELSE dropped \cup {id_counter}
    /\ id_counter' = id_counter + 1
    /\ UNCHANGED <<pc, sink, parked, handles, downloads, appState, hist, initCount, interrupted, seen>>

\* Message::Clear
Clear ==
    /\ appDownloads' = IF appState = "Running" THEN EmptyMap ELSE appDownloads
    /\ UNCHANGED <<pc, sink, parked, rx, handles, downloads, appState,
                   id_counter, hist, dropped, initCount, interrupted, seen>>

\* #[derive(Clone)] struct Downloader: a holder clones its handle
CloneHandle ==
    /\ appState = "Running"
    /\ handles >= 1
    /\ handles < MaxHandles
    /\ handles' = handles + 1
    /\ UNCHANGED <<pc, sink, parked, rx, downloads, appVars, hist, dropped, initCount, interrupted, seen>>

\* a holder drops its handle
DropHandle ==
    /\ appState = "Running"
    /\ handles >= 1
    /\ handles' = handles - 1
    /\ UNCHANGED <<pc, sink, parked, rx, downloads, appVars, hist, dropped, initCount, interrupted, seen>>

----------------------------------------------------------------------------
\* downloads.next() polling the m-th stream of the SelectAll
Step(m) ==
    /\ m \in 1 .. Len(downloads)
    /\ \/ PollReady(m, SmallTotals, FALSE)
       \/ BeginStep(m, SmallChunks)
       \/ EndStep(m, FALSE)
       \/ Finish(m, FALSE)
       \/ PollFinished(m, FALSE)

Next ==
    \/ RunInit
    \/ RecvCommand
    \/ \E m \in 1 .. MaxSubmissions : Step(m)
    \/ Panic
    \/ FlushDone
    \/ Deliver
    \/ StartDownloadInit
    \/ StartDownload
    \/ Clear
    \/ CloneHandle
    \/ DropHandle

Spec == Init /\ [][Next]_vars

\* Scheduling: the consumer keeps polling the subscription; a send that can
\* complete does; select! starts each iteration at a random branch and the
\* SelectAll polls every woken stream, so neither the command branch nor a
\* machine that can step is passed over forever.
Fairness ==
    /\ WF_vars(Deliver)
    /\ WF_vars(FlushDone)
    /\ SF_vars(RecvCommand)
    /\ \A m \in 1 .. MaxSubmissions : SF_vars(Step(m))

FairSpec == Spec /\ Fairness

----------------------------------------------------------------------------
(* One item with the draws of the source: `download` applied to totals and
   chunk sizes from the real ranges, from submission to Finished. *)

StartOne ==
    /\ id_counter = 0
    /\ StartDownload

ArithStep(m) ==
    /\ m \in 1 .. Len(downloads)
    /\ \/ PollReady(m, RealTotals, TRUE)
       \/ BeginStep(m, RealChunks)
       \/ EndStep(m, TRUE)
       \/ Finish(m, TRUE)
       \/ PollFinished(m, TRUE)

ArithNext ==
    \/ RunInit
    \/ RecvCommand
    \/ \E m \in 1 .. MaxSubmissions : ArithStep(m)
    \/ FlushDone
    \/ Deliver
    \/ StartOne

ArithSpec == Init /\ [][ArithNext]_vars

----------------------------------------------------------------------------
(* Auxiliary notions for the properties *)

FullShape == <<"Started", "Advanced", "Finished">>

\* the prefixes of Started, Advanced.., Finished (runs of Advanced collapsed)
IsPrefixShape(sh) ==
    /\ Len(sh) <= 3
    /\ \A k \in 1 .. Len(sh) : sh[k] = FullShape[k]

RegisteredIds == {downloads[m].id : m \in 1 .. Len(downloads)}
BufferedIds == {rx[k] : k \in 1 .. Len(rx)}
SinkProgressIds == {sink[k].id : k \in {j \in 1 .. Len(sink) : sink[j].type = "Progress"}}

----------------------------------------------------------------------------
(* C1: for every id, the events produced for it form a prefix of one
   Started, then Advanced events, then one Finished, each carried under the
   id of the machine that produced it; after Finished nothing more is
   produced for that id. *)
C1_EventOrder ==
    /\ \A i \in Ids : IsPrefixShape(hist[i].shape)
    /\ \A m \in 1 .. Len(downloads) :
         downloads[m].state.tag = "Finished" => hist[downloads[m].id].shape = FullShape
    /\ \A k \in 1 .. Len(sink) :
         sink[k].type = "Progress" =>
            /\ sink[k].id \in RegisteredIds
            /\ \E j \in 1 .. Len(hist[sink[k].id].shape) :
                 hist[sink[k].id].shape[j] = sink[k].p.kind

\* an item has finished while the worker goes on with another item that
\* was registered and has started
C1_Witness ==
    /\ pc \in {"select", "flush"}
    /\ \E m1, m2 \in 1 .. Len(downloads) :
         /\ downloads[m1].state.tag = "Finished"
         /\ hist[downloads[m1].id].shape = FullShape
         /\ downloads[m2].state.tag = "Downloading"
         /\ downloads[m2].state.downloaded > 0

(* C2: exactly one Initialized event is sent, it enters the Event Sink before
   any Progress event, and nothing is submitted, buffered or registered
   before it has been sent (and delivered: the handle travels inside it). *)
C2_Handshake ==
    /\ initCount <= 1
    /\ pc # "start" => initCount = 1
    /\ pc = "start" =>
         /\ sink = <<>>
         /\ \A i \in Ids : hist[i].shape = <<>>
    /\ \A k \in 2 .. Len(sink) : sink[k].type = "Progress"
    /\ (appState = "Init" /\ pc # "start") =>
         (sink # <<>> /\ sink[1].type = "Initialized")
    /\ appState = "Running" => \A k \in 1 .. Len(sink) : sink[k].type = "Progress"
    /\ (rx # <<>> \/ downloads # <<>> \/ id_counter > 0 \/ dropped # {}
        \/ \E i \in Ids : hist[i].shape # <<>>) =>
         (initCount = 1 /\ appState = "Running")

\* after the handshake a submission was registered and produced an event
C2_Witness ==
    /\ initCount = 1
    /\ appState = "Running"
    /\ downloads # <<>>
    /\ \E k \in 1 .. Len(sink) : sink[k].type = "Progress"

(* C3: a submission is appended when the Command Channel holds fewer than
   its capacity and is otherwise dropped, leaving the channel as it was; the
   channel never exceeds its capacity; a dropped submission is never
   buffered, never registered and never produces an event; the submission
   itself is possible whatever the channel holds. *)
C3_DropInvariant ==
    /\ Len(rx) <= CommandCapacity
    /\ \A i \in dropped :
         /\ i \notin BufferedIds
         /\ i \notin RegisteredIds
         /\ i \notin SinkProgressIds
         /\ hist[i].shape = <<>>
    /\ (appState = "Running" /\ handles >= 1 /\ id_counter < MaxSubmissions) =>
         ENABLED StartDownload

C3_SubmitEffect ==
    id_counter' = id_counter + 1 =>
       /\ Len(rx) < CommandCapacity => rx' = Append(rx, id_counter) /\ dropped' = dropped
       /\ Len(rx) >= CommandCapacity => rx' = rx /\ dropped' = dropped \cup {id_counter}
       /\ UNCHANGED <<pc, sink, parked, downloads, hist>>

\* C3: the channel invariant together with the effect of every submission
C3_TrySend == []C3_DropInvariant /\ [][C3_SubmitEffect]_vars

\* a submission was dropped, the channel has since been drained and the
\* accepted submission before it has run to Finished: the dropped one is
\* still nowhere
C3_Witness ==
    /\ dropped # {}
    /\ rx = <<>>
    /\ \E m \in 1 .. Len(downloads) : downloads[m].state.tag = "Finished"

(* C4, as stated: the send to the Event Sink never makes the supervisor wait
   for the consumer. *)
C4_NonBlockingSend == pc # "flush" /\ ~parked

(* C4, amended: every event the Multiplexer yields is appended to the Event
   Sink, none is dropped; when that exceeds the buffer the supervisor waits
   in the send until the consumer has taken an event, and while it waits it
   neither polls the Multiplexer nor dequeues from the Command Channel. *)
C4_Inv ==
    /\ Len(sink) <= SinkBuffer + 1
    /\ parked => (pc = "flush" /\ Len(sink) = SinkBuffer + 1)
    /\ Len(sink) > SinkBuffer => parked

C4_Step ==
    /\ hist' # hist =>
         \E i \in Ids :
            /\ hist' = [hist EXCEPT ![i] = hist'[i]]
            /\ Len(sink') = Len(sink) + 1
            /\ sink' = Append(sink, sink'[Len(sink')])
            /\ sink'[Len(sink')].type = "Progress"
            /\ sink'[Len(sink')].id = i
    /\ Len(sink') < Len(sink) => sink' = Tail(sink)
    /\ pc = "flush" =>
         /\ downloads' = downloads
         /\ hist' = hist
         /\ Len(rx') >= Len(rx)
         /\ pc' \in {"flush", "select"}
         /\ pc' = "select" => ~parked

\* C4, amended: the sink invariant together with the effect of every step
C4_SendAwaits == []C4_Inv /\ [][C4_Step]_vars

\* the supervisor waits in the send while a submission sits in the channel
C4_Witness ==
    /\ pc = "flush"
    /\ parked
    /\ rx # <<>>
    /\ sink[Len(sink)].type = "Progress"

(* C5: once the supervisor runs its loop it never reaches a terminal or
   failed state, and the select has a branch it can wait on. *)
C5_NoTerminalState ==
    /\ pc # "panicked"
    /\ pc = "select" => (rx # <<>> \/ handles > 0 \/ downloads # <<>>)

(* C6: within an item, total never changes once drawn, downloaded starts at 0
   and strictly increases with every Advanced step, and the percentages of
   successive Advanced events strictly increase. *)
C6_Step ==
    \A m \in 1 .. Len(downloads) :
       LET a == downloads[m].state
           b == downloads'[m].state
           i == downloads[m].id
       IN /\ downloads'[m].id = i
          /\ (a.tag = "Ready" /\ b.tag # "Ready") =>
                (b.tag = "Downloading" /\ b.downloaded = 0 /\ hist'[i].n = 0)
          /\ (a.tag = "Downloading" /\ b.tag = "Downloading") =>
                (b.total = a.total /\ b.downloaded >= a.downloaded)
          /\ hist'[i].n # hist[i].n =>
                /\ hist'[i].n = hist[i].n + 1
                /\ a.tag = "Downloading" /\ b.tag = "Downloading"
                /\ b.downloaded > a.downloaded
                /\ hist'[i].last = Percentage(b.downloaded, b.total)
                /\ hist'[i].last > hist[i].last

\* C6: every step keeps total and strictly increases downloaded and the
\* percentage of an Advanced event
C6_Monotone == [][C6_Step]_vars

\* an item has produced several Advanced events
C6_Witness ==
    \E m \in 1 .. Len(downloads) :
       /\ hist[downloads[m].id].n >= 3
       /\ downloads[m].state.tag = "Downloading"
       /\ hist[downloads[m].id].last =
             Percentage(downloads[m].state.downloaded, downloads[m].state.total)

\* 100 percent and the largest percentage the ranges allow, in fixed point
Hundred == Percentage(1, 1)
MaxPercentage == Percentage(TotalLo + ChunkHi - 1, TotalLo)

(* C7, as stated: every Advanced event carries a percentage within [0, 100],
   the new downloaded value being at most total. *)
C7_WithinHundred ==
    /\ \A i \in Ids : hist[i].last <= Hundred
    /\ \A m \in 1 .. Len(downloads) :
         downloads[m].state.tag = "Downloading" =>
            downloads[m].state.downloaded <= downloads[m].state.total

(* C7, amended: every Advanced event carries a percentage above 0 and below
   150, the new downloaded value satisfying
   0 < downloaded <= total + 4999 (the largest chunk). *)
C7_Overshoot ==
    /\ \A m \in 1 .. Len(downloads) :
         downloads[m].state.tag = "Downloading" =>
            /\ downloads[m].state.downloaded <= downloads[m].state.total + ChunkHi - 1
            /\ hist[downloads[m].id].n >= 1 => downloads[m].state.downloaded > 0
    /\ \A i \in Ids :
         hist[i].n >= 1 => (0 < hist[i].last /\ hist[i].last <= MaxPercentage)
    /\ \A k \in 1 .. Len(sink) :
         (sink[k].type = "Progress" /\ sink[k].p.kind = "Advanced") =>
            (0 < sink[k].p.pct /\ sink[k].p.pct <= MaxPercentage)
    /\ MaxPercentage < Hundred + Hundred \div 2

\* an Advanced event above 100 percent has been produced
C7_Witness ==
    \E m \in 1 .. Len(downloads) :
       /\ hist[downloads[m].id].last > Hundred
       /\ downloads[m].state.tag = "Downloading"
       /\ downloads[m].state.downloaded > downloads[m].state.total

\* the events a machine in a given state has produced so far
ExpectedShape(state) ==
    CASE state.tag = "Ready" -> <<>>
      [] state.tag = "Downloading" /\ state.downloaded = 0 -> <<"Started">>
      [] state.tag = "Downloading" /\ state.downloaded > 0 -> <<"Started", "Advanced">>
      [] OTHER -> FullShape

\* machine m has a result that a poll would yield
CanYield(m) ==
    \/ downloads[m].state.tag = "Ready"
    \/ downloads[m].sleep > 0
    \/ (downloads[m].state.tag = "Downloading" /\ ~NeedsChunk(downloads[m].state))

(* C8: items with distinct ids each produce their own valid sequence, which
   depends on that item's machine alone, and the Multiplexer imposes no order
   between items: whenever the loop selects, any machine that has a result
   may be the next to yield, whatever the others have done. *)
C8_Independent ==
    /\ \A m1, m2 \in 1 .. Len(downloads) :
         m1 # m2 => downloads[m1].id # downloads[m2].id
    /\ \A m \in 1 .. Len(downloads) :
         hist[downloads[m].id].shape = ExpectedShape(downloads[m].state)
    /\ \A i \in Ids : i \notin RegisteredIds => hist[i].shape = <<>>
    /\ \A m \in 1 .. Len(downloads) :
         (pc = "select" /\ CanYield(m)) => ENABLED <<Step(m)>>_vars

\* the item submitted later has finished while the one submitted before it
\* still has Advanced events to come
C8_Witness ==
    /\ Len(downloads) >= 2
    /\ downloads[2].id > downloads[1].id
    /\ downloads[2].state.tag = "Finished"
    /\ NeedsChunk(downloads[1].state)

(* C9: registering a machine leaves every machine already registered as it
   is (state, total, downloaded and the step that is sleeping), and a step of
   one machine changes that machine and the events of its id only. *)
C9_Step ==
    /\ Len(downloads') >= Len(downloads)
    /\ Len(downloads') > Len(downloads) =>
         /\ Len(downloads') = Len(downloads) + 1
         /\ \A m \in 1 .. Len(downloads) : downloads'[m] = downloads[m]
         /\ downloads'[Len(downloads')] = Machine(Head(rx))
         /\ hist' = hist
    /\ \A m1, m2 \in 1 .. Len(downloads) :
         (m1 # m2 /\ downloads'[m1] # downloads[m1]) =>
            /\ downloads'[m2] = downloads[m2]
            /\ hist'[downloads[m2].id] = hist[downloads[m2].id]

\* C9: every step leaves the machines it is not about as they are
C9_Frame == [][C9_Step]_vars

\* a submission was registered while a step of another machine was asleep,
\* and that step is still asleep
C9_Witness ==
    /\ interrupted
    /\ Len(downloads) >= 2
    /\ downloads[1].sleep > 0
    /\ downloads[2].state.tag = "Ready"

(* C10: under fair scheduling and a consumer that keeps polling, every
   submission accepted into the Command Channel leads to Finished for its
   id. *)
C10_Finishes ==
    \A i \in Ids : (i \in BufferedIds) ~> (hist[i].shape = FullShape)

\* both submissions were accepted and both machines have finished
C10_Witness ==
    /\ Len(downloads) >= 2
    /\ dropped = {}
    /\ \A m \in 1 .. Len(downloads) :
         /\ downloads[m].state.tag = "Finished"
         /\ hist[downloads[m].id].shape = FullShape

(* C11: a Downloading machine yields Finished exactly when downloaded > total
   and takes another Advanced step whenever downloaded <= total, the case
   downloaded = total included; so the last Advanced of an item, and only
   the last, has downloaded > total (a percentage above 100), and at Finished
   total < downloaded <= total + 4999, far below the u64 range. *)
C11_Inv ==
    \A m \in 1 .. Len(downloads) :
       LET st == downloads[m].state
           i == downloads[m].id
       IN /\ downloads[m].sleep > 0 => NeedsChunk(st)
          /\ st.tag = "Downloading" =>
               /\ st.downloaded <= st.total + ChunkHi - 1
               /\ st.downloaded + ChunkHi - 1 < 2147483647
               /\ hist[i].n >= 1 =>
                    (hist[i].last > Hundred <=> st.downloaded > st.total)
               /\ (pc = "select" /\ downloads[m].sleep = 0) =>
                    IF st.downloaded <= st.total
                    THEN ENABLED <<BeginStep(m, RealChunks)>>_vars
                         /\ ~ENABLED <<Finish(m, TRUE)>>_vars
                    ELSE ENABLED <<Finish(m, TRUE)>>_vars
                         /\ ~ENABLED <<BeginStep(m, RealChunks)>>_vars
          /\ st.tag = "Finished" => hist[i].last > Hundred

C11_Step ==
    \A m \in 1 .. Len(downloads) :
       LET a == downloads[m].state
           b == downloads'[m].state
           i == downloads[m].id
       IN /\ (a.tag = "Downloading" /\ b.tag = "Finished") =>
                /\ a.downloaded > a.total
                /\ a.downloaded <= a.total + ChunkHi - 1
                /\ hist'[i].n = hist[i].n
                /\ hist'[i].shape = FullShape
          /\ hist'[i].n # hist[i].n =>
                /\ a.downloaded <= a.total
                /\ hist[i].n >= 1 => hist[i].last <= Hundred
                /\ b.downloaded = a.downloaded + downloads[m].sleep

\* C11: the invariant of the threshold together with the effect of every step
C11_Threshold == []C11_Inv /\ [][C11_Step]_vars

\* an item has finished whose last Advanced started from downloaded = total:
\* only total = 10000, downloaded = 10000 and the largest chunk give 149.99
C11_Witness ==
    \E m \in 1 .. Len(downloads) :
       /\ downloads[m].state.tag = "Finished"
       /\ hist[downloads[m].id].shape = FullShape
       /\ hist[downloads[m].id].last = MaxPercentage

\* the submissions the Command Channel has accepted so far
AcceptedIds == {i \in 0 .. (id_counter - 1) : i \notin dropped}

\* the ids on their way through the worker, oldest first: the registered
\* machines in the order of registration, then the channel
PipelineIds == [m \in 1 .. Len(downloads) |-> downloads[m].id] \o rx

(* C12: accepted submissions are dequeued in FIFO order and registered once
   each, as a fresh machine in state Ready with the submitted id; the number
   of registered machines is the number of accepted submissions minus those
   still in the channel. *)
C12_Inv ==
    /\ Len(downloads) = Cardinality(AcceptedIds) - Len(rx)
    /\ \A k \in 1 .. Len(PipelineIds) : PipelineIds[k] \in AcceptedIds
    /\ \A k, l \in 1 .. Len(PipelineIds) : k < l => PipelineIds[k] < PipelineIds[l]

C12_Step ==
    /\ Len(rx') < Len(rx) =>
         /\ rx' = Tail(rx)
         /\ downloads' = Append(downloads, Machine(Head(rx)))
         /\ downloads'[Len(downloads')].state = Ready
         /\ downloads'[Len(downloads')].id = Head(rx)
    /\ Len(downloads') # Len(downloads) => Len(rx') = Len(rx) - 1

\* C12: the pipeline invariant together with the effect of every dequeue
C12_RegisteredOnce == []C12_Inv /\ [][C12_Step]_vars

\* two accepted submissions have been registered in the order submitted, the
\* first already at work and the second fresh
C12_Witness ==
    /\ Len(downloads) = 2
    /\ rx = <<>>
    /\ downloads[1].id < downloads[2].id
    /\ downloads[1].state.tag = "Downloading"
    /\ downloads[2] = Machine(downloads[2].id)

(* C13: the live set never shrinks. A machine stays registered at its place;
   once Finished it is parked for good: polling it is pending, no step of it
   changes anything, and it is neither altered nor removed. The number of
   registered machines is therefore non-decreasing, and it grows by one with
   every accepted submission that is dequeued. *)
C13_Inv ==
    \A m \in 1 .. Len(downloads) :
       downloads[m].state = Finished =>
          /\ download(downloads[m].id, downloads[m].state, 0, 0).pending
          /\ ~CanYield(m)
          /\ ~ENABLED <<Step(m)>>_vars

C13_Step ==
    /\ Len(downloads') >= Len(downloads)
    /\ \A m \in 1 .. Len(downloads) :
         /\ downloads'[m].id = downloads[m].id
         /\ downloads[m].state = Finished => downloads'[m] = downloads[m]
    /\ Len(rx') < Len(rx) => Len(downloads') = Len(downloads) + 1

\* C13: Finished machines are parked, and no step removes a machine
C13_NeverShrinks == []C13_Inv /\ [][C13_Step]_vars

\* every submission the bound allows has been accepted and has finished:
\* the set still holds all the machines, none of them ready
C13_Witness ==
    /\ Len(downloads) = MaxSubmissions
    /\ \A m \in 1 .. Len(downloads) : downloads[m].state = Finished
    /\ \A i \in Ids : seen[i] = FullShape
    /\ pc = "select"
    /\ sink = <<>>

\* the consumer's view of item i after it has also taken the events q
RECURSIVE Replay(_, _, _)
Replay(shape, q, i) ==
    IF q = <<>> THEN shape
    ELSE Replay(IF Head(q).type = "Progress" /\ Head(q).id = i
                THEN AddKind(shape, Head(q).p.kind) ELSE shape,
                Tail(q), i)

\* the percentages of the Advanced events for item i waiting in q, in order
RECURSIVE AdvancedIn(_, _)
AdvancedIn(q, i) ==
    IF q = <<>> THEN <<>>
    ELSE IF Head(q).type = "Progress" /\ Head(q).id = i /\ Head(q).p.kind = "Advanced"
         THEN <<Head(q).p.pct>> \o AdvancedIn(Tail(q), i)
         ELSE AdvancedIn(Tail(q), i)

\* how many events of the given kind for item i wait in q
RECURSIVE CountIn(_, _, _)
CountIn(q, i, kind) ==
    IF q = <<>> THEN 0
    ELSE (IF Head(q).type = "Progress" /\ Head(q).id = i /\ Head(q).p.kind = kind
          THEN 1 ELSE 0) + CountIn(Tail(q), i, kind)

(* C14: every pair the Multiplexer yields reaches the Event Sink once and in
   the order yielded. What the consumer has seen of an item, followed by what
   waits for it in the sink, is what the item's machine has produced: nothing
   missing, nothing twice. The sink holds at most one event beyond its
   buffer, and while that event's send is pending the supervisor polls no
   machine and dequeues no submission. *)
C14_Inv ==
    /\ \A i \in Ids :
         /\ Replay(seen[i], sink, i) = hist[i].shape
         /\ IsPrefixShape(seen[i])
         /\ CountIn(sink, i, "Started") <= 1
         /\ CountIn(sink, i, "Finished") <= 1
         /\ \A k, l \in 1 .. Len(AdvancedIn(sink, i)) :
              k < l => AdvancedIn(sink, i)[k] < AdvancedIn(sink, i)[l]
    /\ \A m \in 1 .. Len(downloads) :
         (downloads[m].state.tag = "Downloading" /\ downloads[m].state.downloaded > 0) =>
            LET i    == downloads[m].id
                cur  == Percentage(downloads[m].state.downloaded, downloads[m].state.total)
                advs == AdvancedIn(sink, i)
            IN IF advs # <<>>
               THEN advs[Len(advs)] = cur
               ELSE i \in DOMAIN appDownloads => appDownloads[i] = cur
    /\ Len(sink) <= SinkBuffer + 1
    /\ (pc = "flush" /\ parked) => Len(sink) = SinkBuffer + 1

C14_Step ==
    /\ \/ sink' = sink
       \/ sink # <<>> /\ sink' = Tail(sink)
       \/ sink' # <<>> /\ sink = SubSeq(sink', 1, Len(sink') - 1)
    /\ hist' # hist =>
         /\ Len(sink') = Len(sink) + 1
         /\ sink'[Len(sink')].type = "Progress"
         /\ LET e == sink'[Len(sink')]
            IN hist' = [hist EXCEPT ![e.id] = Note(@, e.p, FALSE)]
    /\ (sink # <<>> /\ sink' = Tail(sink) /\ Head(sink).type = "Progress") =>
         seen' = [seen EXCEPT ![Head(sink).id] = AddKind(@, Head(sink).p.kind)]
    /\ seen' # seen => (sink # <<>> /\ sink' = Tail(sink))
    /\ pc = "flush" =>
         /\ downloads' = downloads
         /\ hist' = hist
         /\ Len(rx') >= Len(rx)
         /\ Len(sink') <= Len(sink)

\* C14: the delivery invariant together with the effect of every step on the
\* sink
C14_ExactlyOnce == []C14_Inv /\ [][C14_Step]_vars

\* the consumer has seen one item's whole sequence, Finished included, while
\* another event waits behind a full sink with its send pending
C14_Witness ==
    /\ \E i \in Ids : seen[i] = FullShape
    /\ pc = "flush"
    /\ parked
    /\ Len(sink) = SinkBuffer + 1

\* the fewest and the most Advanced events the ranges of the draws allow
MinAdvanced == (TotalLo \div (ChunkHi - 1)) + 1
MaxAdvanced == ((TotalHi - 1) \div ChunkLo) + 1

(* C15: with total in [10_000, 50_000) and every chunk in [1_000, 5_000) an
   item produces between 3 and 50 Advanced events: no item has produced more
   than 50, an item that still needs a chunk has produced fewer than 50, and
   an item that is past its total (about to yield Finished, or Finished) has
   produced at least 3. *)
C15_AdvancedCount ==
    /\ MinAdvanced = 3
    /\ MaxAdvanced = 50
    /\ \A i \in Ids : hist[i].n <= MaxAdvanced
    /\ \A m \in 1 .. Len(downloads) :
         LET n == hist[downloads[m].id].n
         IN /\ NeedsChunk(downloads[m].state) => n < MaxAdvanced
            /\ (downloads[m].state.tag = "Downloading" /\ ~NeedsChunk(downloads[m].state)) =>
                  n >= MinAdvanced
            /\ downloads[m].state = Finished => n >= MinAdvanced
            /\ downloads[m].state.tag = "Ready" => n = 0

\* an item has finished after the largest number of Advanced events
C15_Witness ==
    \E m \in 1 .. Len(downloads) :
       /\ downloads[m].state = Finished
       /\ hist[downloads[m].id].n = MaxAdvanced

\* an item has finished after the smallest number of Advanced events
C15_WitnessMin ==
    \E m \in 1 .. Len(downloads) :
       /\ downloads[m].state = Finished
       /\ hist[downloads[m].id].n = MinAdvanced

(* C16: the application never submits the same id twice. id_counter changes
   only by one, only in state Running, and only together with a submission
   of the id it held; every submission advances it; in state Init nothing
   is submitted and it stays 0. Hence the ids submitted so far, accepted or
   dropped, are exactly those below id_counter, and the machines registered
   and the submissions buffered carry pairwise distinct ids. *)
C16_Inv ==
    /\ id_counter \in 0 .. MaxSubmissions
    /\ appState = "Init" => (id_counter = 0 /\ rx = <<>> /\ downloads = <<>> /\ dropped = {})
    /\ \A k \in 1 .. Len(PipelineIds) : PipelineIds[k] < id_counter
    /\ \A k, l \in 1 .. Len(PipelineIds) : k # l => PipelineIds[k] # PipelineIds[l]
    /\ \A i \in dropped : i < id_counter /\ \A k \in 1 .. Len(PipelineIds) : PipelineIds[k] # i
    /\ Len(PipelineIds) + Cardinality(dropped) = id_counter

C16_Step ==
    /\ id_counter' # id_counter =>
         /\ id_counter' = id_counter + 1
         /\ appState = "Running"
         /\ \/ rx' = Append(rx, id_counter) /\ dropped' = dropped
            \/ rx' = rx /\ dropped' = dropped \cup {id_counter}
    /\ (Len(rx') > Len(rx) \/ dropped' # dropped) => id_counter' = id_counter + 1
    /\ appState = "Init" => (id_counter' = id_counter /\ rx' = rx /\ dropped' = dropped)

\* C16: the distinctness invariant together with the only way id_counter
\* changes
C16_UniqueIds == []C16_Inv /\ [][C16_Step]_vars

\* every submission the bound allows has been made and registered, each
\* under its own id and with its own map entry
C16_Witness ==
    /\ id_counter = MaxSubmissions
    /\ Len(downloads) = MaxSubmissions
    /\ {downloads[m].id : m \in 1 .. Len(downloads)} = Ids
    /\ DOMAIN appDownloads = Ids

\* Progress payloads and downloads maps to apply App::update to
SomePayloads == {Started, FinishedEv, Advanced(Hundred), Advanced(MaxPercentage)}
SomeMaps == {EmptyMap} \cup {Insert(EmptyMap, i, 0) : i \in Ids}

\* the variables of the worker
workerVars == <<pc, sink, parked, rx, handles, downloads, hist, dropped, initCount>>

(* C17: Clear cancels nothing in the worker. The step that takes entries out
   of the downloads map empties the map and touches nothing else; a Progress
   event delivered afterwards never creates an entry, and leaves the
   application as it is when its id has no entry, when it is Started or
   Finished, or when the state is Init. An item whose entry is gone still
   runs, and the consumer still receives its whole sequence up to
   Finished. *)
C17_Inv ==
    /\ \A i \in Ids, p \in SomePayloads, map \in SomeMaps :
         /\ update("Init", map, Progress(i, p)) = [state |-> "Init", downloads |-> map]
         /\ DOMAIN update("Running", map, Progress(i, p)).downloads = DOMAIN map
         /\ (i \notin DOMAIN map \/ p.kind # "Advanced") =>
               update("Running", map, Progress(i, p)) = [state |-> "Running", downloads |-> map]
    /\ appState = "Init" => appDownloads = EmptyMap
    /\ DOMAIN appDownloads \subseteq 0 .. (id_counter - 1)

C17_Step ==
    /\ (\E i \in DOMAIN appDownloads : i \notin DOMAIN appDownloads') =>
         /\ appDownloads' = EmptyMap
         /\ appState = "Running"
         /\ UNCHANGED <<workerVars, appState, id_counter, seen, interrupted>>
    /\ (sink # <<>> /\ sink' = Tail(sink) /\ Head(sink).type = "Progress") =>
         /\ DOMAIN appDownloads' = DOMAIN appDownloads
         /\ UNCHANGED <<appState, id_counter>>
         /\ (Head(sink).id \notin DOMAIN appDownloads \/ Head(sink).p.kind # "Advanced") =>
               appDownloads' = appDownloads
         /\ UNCHANGED <<pc, rx, handles, downloads, hist, dropped>>

C17_StillFinishes ==
    \A i \in Ids :
       (i \in RegisteredIds /\ appState = "Running" /\ i \notin DOMAIN appDownloads)
          ~> (seen[i] = FullShape /\ i \notin DOMAIN appDownloads)

\* C17: the frame of Clear and of the Progress arm, and the progress of the
\* items whose entries were cleared
C17_ClearCancelsNothing == []C17_Inv /\ [][C17_Step]_vars /\ C17_StillFinishes

\* item 0 was cleared from the map while at work and the consumer has since
\* received its whole sequence; item 1, submitted after the Clear, has its
\* entry, and no entry for item 0 has come back
C17_Witness ==
    /\ 0 \notin DOMAIN appDownloads
    /\ 1 \in DOMAIN appDownloads
    /\ seen[0] = FullShape
    /\ hist[1].shape # <<>>

(* C18: in state Running, StartDownload inserts an entry with progress 0 for
   the current id_counter and increments id_counter, whether the Command
   Channel took the submission or was full. For a submission that was
   dropped, no machine is registered and no event is produced, queued or
   seen for its id, so its entry, as long as it is in the map, keeps
   progress 0. *)
C18_Inv ==
    /\ \A i \in dropped :
         /\ i \notin RegisteredIds
         /\ i \notin BufferedIds
         /\ hist[i] = NoHist
         /\ seen[i] = <<>>
         /\ CountIn(sink, i, "Started") + CountIn(sink, i, "Advanced")
              + CountIn(sink, i, "Finished") = 0
         /\ i \in DOMAIN appDownloads => appDownloads[i] = 0
    /\ (appState = "Running" /\ handles >= 1 /\ id_counter < MaxSubmissions) =>
         ENABLED <<StartDownload>>_vars

C18_Step ==
    /\ id_counter' # id_counter =>
         /\ appDownloads' = Insert(appDownloads, id_counter, 0)
         /\ appDownloads'[id_counter] = 0
         /\ id_counter' = id_counter + 1
         /\ IF Len(rx) < CommandCapacity
            THEN rx' = Append(rx, id_counter) /\ dropped' = dropped
            ELSE rx' = rx /\ dropped' = dropped \cup {id_counter}
    /\ dropped \subseteq dropped'

\* C18: the fate of a dropped submission together with the effect of every
\* StartDownload
C18_EntryWithoutEvents == []C18_Inv /\ [][C18_Step]_vars

\* a submission was dropped on a full channel: its entry shows progress 0
\* while the entry of an accepted item has advanced
C18_Witness ==
    \E i \in dropped :
       /\ i \in DOMAIN appDownloads
       /\ appDownloads[i] = 0
       /\ \E j \in DOMAIN appDownloads : appDownloads[j] > 0

====
